---- MODULE Spec2Model ----
(***************************************************************************)
(* Model of my-shell.c: a line-oriented command interpreter.               *)
(*                                                                         *)
(* A C string is a sequence of one-character strings.  A pointer that may  *)
(* be NULL is a sequence of length 0 (NULL) or 1 (the object pointed to).  *)
(* The interpreter (main) is one process whose position is pc; every       *)
(* forked child is an entry of children.                                   *)
(***************************************************************************)
EXTENDS Integers, Sequences, FiniteSets, TLC

VARIABLES
    pc,          \* position of the interpreter inside main()
    running,     \* main: int running
    cmd,         \* main: char *cmd, the line buffer filled by getline
    read,        \* main: ssize_t read, the value returned by getline
    args,        \* main: char **args, the tokens up to the NULL terminator
    background,  \* main: int background
    ret,         \* value returned by handle_builtin in this iteration
    pid,         \* execute: pid_t pid, the value returned by fork
    cwd,         \* working directory of the interpreter process
    home,        \* getenv("HOME"): NULL or a pointer to its value
    queued,      \* lines still waiting in the standard input stream
    children,    \* forked processes not yet collected: pid -> record
    nextpid,     \* the pid the next successful fork returns
    reported,    \* pids printed by "Started background process with PID"
    status,      \* exit status of the interpreter once pc = "done"
    heap         \* malloc'ed blocks of the interpreter: live, twice freed

vars == <<pc, running, cmd, read, args, background, ret, pid, cwd, home,
          queued, children, nextpid, reported, status, heap>>

-----------------------------------------------------------------------------
(* Bounds of the model *)

MaxLines == 2   \* lines in the input stream
MaxWords == 2   \* words joined into one input line
MaxLen   == 6   \* characters of a string handed to parse on its own
MaxFairLines == 2   \* lines in the input stream of the fair specification
MaxExtra == 2   \* tokens of the longest line beyond the MAX_ARGS - 1 that fit

-----------------------------------------------------------------------------
(* Strings *)

MAX_ARGS == 128

NULL == <<>>

exit  == <<"e", "x", "i", "t">>
quit  == <<"q", "u", "i", "t">>
cd    == <<"c", "d">>
chdir == <<"c", "h", "d", "i", "r">>
Marker == <<"#">>

\* strcmp(a, b) == 0 for two C strings
StrEq(a, b) == a = b

-----------------------------------------------------------------------------
(* parse(): strtok(string, " ") in a loop *)

\* strtok, first phase: skip the delimiters in front of the token
RECURSIVE SkipDelims(_, _)
SkipDelims(s, p) ==
    IF p <= Len(s) /\ s[p] = " " THEN SkipDelims(s, p + 1) ELSE p

\* strtok, second phase: the token runs up to the next delimiter or the end
RECURSIVE ScanToken(_, _)
ScanToken(s, p) ==
    IF p <= Len(s) /\ s[p] # " " THEN ScanToken(s, p + 1) ELSE p

\* A strtok variant that does not skip a run of delimiters (as strsep does).
strtokEmptyFields(s, p) ==
    LET e == ScanToken(s, p)
    IN  IF p > Len(s)
        THEN [token |-> NULL, next |-> p]
        ELSE [token |-> <<SubSeq(s, p, e - 1)>>,
              next  |-> IF e > Len(s) THEN e ELSE e + 1]

\* strtok resumed at position p of s: the token found (NULL when none is
\* left) and the position saved for the next call.  strtok overwrites the
\* delimiter that ends the token with NUL and resumes behind it.
strtok(s, p) ==
    LET b == SkipDelims(s, p)
        e == ScanToken(s, b)
    IN  IF b > Len(s)
        THEN [token |-> NULL, next |-> b]
        ELSE [token |-> <<SubSeq(s, b, e - 1)>>,
              next  |-> IF e > Len(s) THEN e ELSE e + 1]

\* A marker test that looks at the first character only.
IsMarkerFirstChar(token) == token[1] = "#"

\* strcmp(token, "#") == 0
IsMarker(token) == StrEq(token, Marker)

\* the turns of the while loop that are computed in one block
Turns == MAX_ARGS \div 8

\* at most n turns of the while loop of parse: tok is the current strtok
\* result, av the tokens copied into args so far (argCount = Len(av)).
\* more: the loop has not ended within these turns.
RECURSIVE ParseTurns(_, _, _, _)
ParseTurns(s, tok, av, n) ==
    IF tok.token = NULL
    THEN [args |-> av, background |-> FALSE, more |-> FALSE, tok |-> tok]
    ELSE IF IsMarker(tok.token[1])
         THEN [args |-> av, background |-> TRUE, more |-> FALSE, tok |-> tok]
         ELSE IF n = 0
              THEN [args |-> av, background |-> FALSE, more |-> TRUE,
                    tok |-> tok]
              ELSE ParseTurns(s, strtok(s, tok.next),
                              Append(av, tok.token[1]), n - 1)

\* the while loop of parse, from the strtok result tok with the tokens av
\* in args.  It is computed block by block, which keeps the depth of the
\* recursion small on lines of many tokens.
RECURSIVE ParseLoop(_, _, _)
ParseLoop(s, tok, av) ==
    LET r == ParseTurns(s, tok, av, Turns)
    IN  IF r.more THEN ParseLoop(s, r.tok, r.args) ELSE r

\* parse(string, &background): the tokens stored in args before the
\* terminating NULL, and the flag
parse(string) == ParseLoop(string, strtok(string, 1), <<>>)

\* the stores of parse past the MAX_ARGS slots of args: the terminating
\* NULL when there are MAX_ARGS tokens, and every token from index
\* MAX_ARGS on
Overflows(av) == Len(av) >= MAX_ARGS

-----------------------------------------------------------------------------
(* The file system and the programs the interpreter runs in *)

Root    == <<"/">>
HomeDir == <<"/", "h">>
SubDir  == <<"/", "h", "/", "d">>
Dirs    == {Root, HomeDir, SubDir}

ls == <<"l", "s">>
Programs == {ls}

\* the directory a path names, seen from the working directory wd
Resolve(wd, path) ==
    IF path # <<>> /\ path[1] = "/" THEN path
    ELSE IF wd = Root THEN wd \o path
    ELSE wd \o <<"/">> \o path

\* chdir(path) != 0: path is a pointer; NULL fails with EFAULT
ChdirFails(wd, path) ==
    \/ path = NULL
    \/ Resolve(wd, path[1]) \notin Dirs

-----------------------------------------------------------------------------
(* handle_builtin() *)

Builtins == {exit, quit, cd, chdir}

\* Only "exit" ends the loop.
IsExitCmdOnlyExit(a0) == StrEq(a0, exit)

\* strcmp(args[0], "exit") == 0 || strcmp(args[0], "quit") == 0
IsExitCmd(a0) == StrEq(a0, exit) \/ StrEq(a0, quit)

\* strcmp(args[0], "cd") == 0 || strcmp(args[0], "chdir") == 0
IsCdCmd(a0) == StrEq(a0, cd) \/ StrEq(a0, chdir)

\* The home directory whatever the arguments are.
CdPathAlwaysHome(av, hm) == hm

\* the path of cd: getenv("HOME") when args[1] == NULL, else args[1]
CdPath(av, hm) == IF Len(av) < 2 THEN hm ELSE <<av[2]>>

\* A dispatcher that reports a failed chdir as "not a builtin".
handle_builtinFailureAsZero(av, run, wd, hm) ==
    IF IsExitCmd(av[1])
    THEN [ret |-> 1, running |-> FALSE, cwd |-> wd]
    ELSE IF IsCdCmd(av[1])
         THEN IF ChdirFails(wd, CdPath(av, hm))
              THEN [ret |-> 0, running |-> run, cwd |-> wd]
              ELSE [ret |-> 1, running |-> run,
                    cwd |-> Resolve(wd, CdPath(av, hm)[1])]
         ELSE [ret |-> 0, running |-> run, cwd |-> wd]

\* A dispatcher that stops the interpreter when chdir fails.
handle_builtinFailureStops(av, run, wd, hm) ==
    IF IsExitCmd(av[1])
    THEN [ret |-> 1, running |-> FALSE, cwd |-> wd]
    ELSE IF IsCdCmd(av[1])
         THEN IF ChdirFails(wd, CdPath(av, hm))
              THEN [ret |-> -1, running |-> FALSE, cwd |-> wd]
              ELSE [ret |-> 1, running |-> run,
                    cwd |-> Resolve(wd, CdPath(av, hm)[1])]
         ELSE [ret |-> 0, running |-> run, cwd |-> wd]

\* handle_builtin(args, &running) for args[0] != NULL: the value returned,
\* the running flag and the working directory afterwards
handle_builtin(av, run, wd, hm) ==
    IF IsExitCmd(av[1])
    THEN [ret |-> 1, running |-> FALSE, cwd |-> wd]
    ELSE IF IsCdCmd(av[1])
         THEN IF ChdirFails(wd, CdPath(av, hm))
              THEN [ret |-> -1, running |-> run, cwd |-> wd]
              ELSE [ret |-> 1, running |-> run,
                    cwd |-> Resolve(wd, CdPath(av, hm)[1])]
         ELSE [ret |-> 0, running |-> run, cwd |-> wd]

-----------------------------------------------------------------------------
(* The input stream *)

\* "Exit" differs from a builtin name by case only; it names no program
\* and no directory
ExitUp == <<"E", "x", "i", "t">>

\* "d" names a directory below the home directory, and no program
dd == <<"d">>

\* the words input lines are made of; the empty word makes leading,
\* trailing and repeated spaces when the words are joined
Vocab == {<<>>, exit, quit, cd, chdir, ls, Marker, dd, ExitUp}

WordSeqs == UNION {[1..n -> Vocab] : n \in 1..MaxWords}

RECURSIVE Join(_)
Join(ws) ==
    IF Len(ws) = 0 THEN <<>>
    ELSE IF Len(ws) = 1 THEN ws[1]
    ELSE ws[1] \o <<" ">> \o Join(Tail(ws))

\* the texts of the input lines, without their line terminator
LineTexts == {Join(ws) : ws \in WordSeqs}

\* the lines that end with the line terminator
TerminatedLines == {t \o <<"\n">> : t \in LineTexts}

\* the lines the last getline of the stream can deliver: the stream may
\* end without a line terminator, after at least one character
LastLines == TerminatedLines \cup (LineTexts \ {<<>>})

\* the lines getline can deliver; last: no line is queued behind this one
InputLines(last) == IF last THEN LastLines ELSE TerminatedLines

\* a stream of short commands: one line of each kind the loop tells apart
ShortTexts ==
    {<<>>, <<" ">>, exit, cd, cd \o <<" ">> \o ExitUp, ls, ExitUp,
     ls \o <<" ">> \o Marker, ExitUp \o <<" ">> \o Marker}

ShortLines(last) ==
    {t \o <<"\n">> : t \in ShortTexts} \cup (IF last THEN {ls} ELSE {})

\* an absolute path that names no directory
NoDir == <<"/", "x">>

HomeValues == {NULL, <<HomeDir>>, <<NoDir>>}

-----------------------------------------------------------------------------
(* The heap of the interpreter process *)

\* line 152: the line buffer getline allocates
CmdBlock == <<"cmd", 0>>

\* line 34: the array of MAX_ARGS pointers
ArgsBlock == <<"args", 0>>

\* line 45: the copy of the i-th token
TokenBlock(i) == <<"token", i>>

\* lines 45-47: one copy for each token parse keeps
TokenBlocks(av) == {TokenBlock(i) : i \in 1..Len(av)}

\* malloc, and the allocation inside getline: the blocks bs become live
malloc(h, bs) == [h EXCEPT !.live = @ \cup bs]

\* free: the blocks bs are released; releasing a block that is not live
\* is a double free
free(h, bs) ==
    [live |-> h.live \ bs, twice |-> h.twice \/ ~(bs \subseteq h.live)]

-----------------------------------------------------------------------------
(* main() and execute() *)

\* the state at the start of main, with at most n lines of input
InitWith(n) ==
    /\ pc = "prompt"
    /\ running = TRUE
    /\ cmd = NULL
    /\ read = 0
    /\ args = <<>>
    /\ background = FALSE
    /\ ret = 0
    /\ pid = 0
    /\ cwd = Root
    /\ home \in HomeValues
    /\ queued \in 0..n
    /\ children = <<>>
    /\ nextpid = 1
    /\ reported = {}
    /\ status = 0
    /\ heap = [live |-> {}, twice |-> FALSE]

Init == InitWith(MaxLines)

\* line 151: printf("marinelli: ")
Prompt ==
    /\ pc = "prompt"
    /\ pc' = "getline"
    /\ UNCHANGED <<running, cmd, read, args, background, ret, pid, cwd, home,
                   queued, children, nextpid, reported, status, heap>>

\* lines 152-157: getline returns -1, at the end of the stream or on a read
\* error before it; perror, free(cmd), return 1
GetlineFails ==
    /\ pc = "getline"
    /\ read' = -1
    /\ cmd' = NULL
    /\ status' = 1
    /\ pc' = "done"
    /\ UNCHANGED <<running, args, background, ret, pid, cwd, home, queued,
                   children, nextpid, reported, heap>>

\* line 152: getline has stored line in cmd and returned its length
ReadLine(line) ==
    /\ cmd' = line
    /\ read' = Len(line)
    /\ queued' = queued - 1
    /\ pc' = "line"
    /\ heap' = malloc(heap, {CmdBlock})
    /\ UNCHANGED <<running, args, background, ret, pid, cwd, home, children,
                   nextpid, reported, status>>

\* line 152: getline delivers the next line of the stream
Getline ==
    /\ pc = "getline"
    /\ queued > 0
    /\ \E line \in InputLines(queued = 1) : ReadLine(line)

\* line 152: getline delivers the next line of a stream of short commands
GetlineShort ==
    /\ pc = "getline"
    /\ queued > 0
    /\ \E line \in ShortLines(queued = 1) : ReadLine(line)

\* No line is taken for an empty one.
IsEmptyLineNever(c) == FALSE

\* line 161: cmd[0] == '\n'
IsEmptyLine(c) == c[1] = "\n"

\* lines 161-164: only the line terminator was entered; free(cmd); continue.
\* read keeps the value getline returned until the next call.
SkipEmptyLine ==
    /\ pc = "line"
    /\ IsEmptyLine(cmd)
    /\ cmd' = NULL
    /\ pc' = IF running THEN "prompt" ELSE "done"
    /\ heap' = free(heap, {CmdBlock})
    /\ UNCHANGED <<running, read, args, background, ret, pid, cwd, home,
                   queued, children, nextpid, reported, status>>

\* lines 167-169: replace a trailing line terminator by NUL
StripNewline ==
    /\ pc = "line"
    /\ ~IsEmptyLine(cmd)
    /\ cmd' = IF cmd[read] = "\n" THEN SubSeq(cmd, 1, read - 1) ELSE cmd
    /\ pc' = "parse"
    /\ UNCHANGED <<running, read, args, background, ret, pid, cwd, home,
                   queued, children, nextpid, reported, status, heap>>

\* lines 171-172: args = parse(cmd, &background).  The tokens are copies;
\* the buffer strtok has cut up is not read again before it is freed.
Parse ==
    /\ pc = "parse"
    /\ args' = parse(cmd).args
    /\ background' = parse(cmd).background
    /\ pc' = "builtin"
    /\ heap' = malloc(heap, {ArgsBlock} \cup TokenBlocks(args'))
    /\ UNCHANGED <<running, cmd, read, ret, pid, cwd, home, queued, children,
                   nextpid, reported, status>>

\* lines 174-183: handle_builtin(args, &running) and the routing on its value
Builtin ==
    /\ pc = "builtin"
    /\ args # <<>>
    /\ LET r == handle_builtin(args, running, cwd, home)
       IN  /\ ret' = r.ret
           /\ running' = r.running
           /\ cwd' = r.cwd
           /\ pc' = IF r.ret # 0
                    THEN (IF ~r.running THEN "done" ELSE "free")
                    ELSE "fork"
           /\ heap' = IF r.ret # 0 /\ ~r.running
                      THEN free(free(heap, {ArgsBlock}), {CmdBlock})
                      ELSE heap
    /\ UNCHANGED <<cmd, read, args, background, pid, home, queued, children,
                   nextpid, reported, status>>

\* line 110 with args[0] == NULL: strcmp reads through a null pointer.  The
\* process is killed by SIGSEGV, or (where address 0 is readable) the
\* comparisons fail and the command is taken for an external one.
BuiltinNullDeref ==
    /\ pc = "builtin"
    /\ args = <<>>
    /\ \/ /\ pc' = "done"
          /\ status' = 139
          /\ ret' = ret
       \/ /\ pc' = "fork"
          /\ status' = status
          /\ ret' = 0
    /\ UNCHANGED <<running, cmd, read, args, background, pid, cwd, home,
                   queued, children, nextpid, reported, heap>>

\* Every command is waited for.
ShouldWaitAlways(bg) == TRUE

\* line 81: if (!background)
ShouldWait(bg) == ~bg

\* lines 66-72: fork fails; perror("fork"); return
ExecuteForkFails ==
    /\ pc = "fork"
    /\ pid' = -1
    /\ pc' = "free"
    /\ UNCHANGED <<running, cmd, read, args, background, ret, cwd, home,
                   queued, children, nextpid, reported, status, heap>>

\* lines 66-89, parent: fork succeeds; a foreground command goes on to
\* waitpid, a background command prints the pid and returns
ExecuteFork ==
    /\ pc = "fork"
    /\ pid' = nextpid
    /\ nextpid' = nextpid + 1
    /\ children' = [p \in (DOMAIN children) \cup {nextpid} |->
                      IF p = nextpid
                      THEN [state |-> "forked", bg |-> background,
                            file |-> IF args = <<>> THEN NULL ELSE <<args[1]>>,
                            code |-> 0]
                      ELSE children[p]]
    /\ IF ShouldWait(background)
       THEN /\ pc' = "wait"
            /\ reported' = reported
       ELSE /\ pc' = "free"
            /\ reported' = reported \cup {nextpid}
    /\ UNCHANGED <<running, cmd, read, args, background, ret, cwd, home,
                   queued, status, heap>>

\* waitpid returns as soon as any child has terminated.
WaitReadyAny(ch, p) == \E q \in DOMAIN ch : ch[q].state = "zombie"

\* line 84: waitpid(pid, &status, 0) returns once child pid has terminated
WaitReady(ch, p) == p \in DOMAIN ch /\ ch[p].state = "zombie"

\* waitpid collects every child that has terminated.
CollectedAllTerminated(ch, p) == {q \in DOMAIN ch : ch[q].state = "zombie"}

\* line 84: waitpid(pid, &status, 0) collects child pid and no other
Collected(ch, p) == {p}

\* line 84: waitpid returns, the child is collected and its status dropped
ExecuteWait ==
    /\ pc = "wait"
    /\ WaitReady(children, pid)
    /\ children' = [p \in (DOMAIN children) \ Collected(children, pid) |->
                      children[p]]
    /\ pc' = "free"
    /\ UNCHANGED <<running, cmd, read, args, background, ret, pid, cwd, home,
                   queued, nextpid, reported, status, heap>>

\* lines 188-194: free the tokens, args and cmd; next test of while (running)
Free ==
    /\ pc = "free"
    /\ cmd' = NULL
    /\ read' = 0
    /\ args' = <<>>
    /\ background' = FALSE
    /\ ret' = 0
    /\ pid' = 0
    /\ pc' = IF running THEN "prompt" ELSE "done"
    /\ heap' = free(free(free(heap, TokenBlocks(args)), {ArgsBlock}), {CmdBlock})
    /\ UNCHANGED <<running, cwd, home, queued, children, nextpid, reported,
                   status>>

SetChild(p, st, code) ==
    children' = [children EXCEPT ![p].state = st, ![p].code = code]

\* line 77, child: execvp(args[0], args) replaces the image
ChildExec(p) ==
    /\ p \in DOMAIN children
    /\ children[p].state = "forked"
    /\ children[p].file # NULL
    /\ children[p].file[1] \in Programs
    /\ SetChild(p, "running", 0)
    /\ UNCHANGED <<pc, running, cmd, read, args, background, ret, pid, cwd,
                   home, queued, nextpid, reported, status, heap>>

\* line 77, child: execvp returns -1, no such program
ChildExecFails(p) ==
    /\ p \in DOMAIN children
    /\ children[p].state = "forked"
    /\ children[p].file # NULL
    /\ children[p].file[1] \notin Programs
    /\ SetChild(p, "failed", 0)
    /\ UNCHANGED <<pc, running, cmd, read, args, background, ret, pid, cwd,
                   home, queued, nextpid, reported, status, heap>>

\* line 77, child, args[0] == NULL: execvp is handed a null file name.  The
\* child is a copy of a parent that has just read through the same pointer
\* and survived, so execvp finds no program to run and returns -1.
ChildExecNull(p) ==
    /\ p \in DOMAIN children
    /\ children[p].state = "forked"
    /\ children[p].file = NULL
    /\ SetChild(p, "failed", 0)
    /\ UNCHANGED <<pc, running, cmd, read, args, background, ret, pid, cwd,
                   home, queued, nextpid, reported, status, heap>>

\* The child returns from execute() into the loop of main.
ExitChildReturns(ch, p) == [ch EXCEPT ![p].state = "loop"]

\* line 78, child: exit(1) ends the process with status 1
ExitChild(ch, p) == [ch EXCEPT ![p].state = "zombie", ![p].code = 1]

\* line 78, child: the statement after an execvp that returned
ChildExit1(p) ==
    /\ p \in DOMAIN children
    /\ children[p].state = "failed"
    /\ children' = ExitChild(children, p)
    /\ UNCHANGED <<pc, running, cmd, read, args, background, ret, pid, cwd,
                   home, queued, nextpid, reported, status, heap>>

\* the program started by execvp terminates, with some status
ProgramExits(p) ==
    /\ p \in DOMAIN children
    /\ children[p].state = "running"
    /\ \E c \in {0, 1} : SetChild(p, "zombie", c)
    /\ UNCHANGED <<pc, running, cmd, read, args, background, ret, pid, cwd,
                   home, queued, nextpid, reported, status, heap>>

\* the steps of the interpreter process behind getline
ShellRest ==
    \/ Prompt
    \/ GetlineFails
    \/ SkipEmptyLine
    \/ StripNewline
    \/ Parse
    \/ Builtin
    \/ BuiltinNullDeref
    \/ ExecuteForkFails
    \/ ExecuteFork
    \/ ExecuteWait
    \/ Free

\* the steps of the interpreter process
ShellStep == Getline \/ ShellRest

\* the steps of the interpreter process on a stream of short commands
ShellStepShort == GetlineShort \/ ShellRest

\* the steps a child takes while it still runs the code of execute()
ChildStep ==
    \E p \in DOMAIN children : ChildExec(p) \/ ChildExecFails(p) \/ ChildExecNull(p)
                    \/ ChildExit1(p)

Next ==
    \/ ShellStep
    \/ ChildStep
    \/ \E p \in DOMAIN children : ProgramExits(p)

Spec == Init /\ [][Next]_vars

FairInit == InitWith(MaxFairLines)

FairNext ==
    \/ ShellStepShort
    \/ ChildStep
    \/ \E p \in DOMAIN children : ProgramExits(p)

\* Every process that runs the interpreter's code is scheduled; a program
\* started by execvp need not terminate.
FairSpec ==
    FairInit /\ [][FairNext]_vars /\ WF_vars(ShellStepShort) /\ WF_vars(ChildStep)

\* a program started in the foreground terminates
ForegroundExits ==
    \E p \in DOMAIN children : ~children[p].bg /\ ProgramExits(p)

\* FairSpec under the assumption that every foreground child terminates
TermSpec == FairSpec /\ WF_vars(ForegroundExits)

-----------------------------------------------------------------------------
(* parse() on its own: one call on a string drawn from a bounded set *)

Alphabet == {" ", "#", "a", "b", "\t"}

ParseStrings == UNION {[1..n -> Alphabet] : n \in 1..MaxLen}

\* main has read one of the strings of S and is about to call parse
ParseInitWith(S) ==
    /\ pc = "parse"
    /\ running = TRUE
    /\ cmd \in S
    /\ read = Len(cmd)
    /\ args = <<>>
    /\ background = FALSE
    /\ ret = 0
    /\ pid = 0
    /\ cwd = Root
    /\ home = NULL
    /\ queued = 0
    /\ children = <<>>
    /\ nextpid = 1
    /\ reported = {}
    /\ status = 0
    /\ heap = [live |-> {CmdBlock}, twice |-> FALSE]

ParseInit == ParseInitWith(ParseStrings)

ParseSpec == ParseInit /\ [][Parse]_vars

-----------------------------------------------------------------------------
(* parse() on lines of many tokens *)

\* the line of n tokens "a" separated by single spaces
ManyTokens(n) == [i \in 1..(2 * n - 1) |-> IF i % 2 = 1 THEN "a" ELSE " "]

\* lines of up to MAX_ARGS - 1 + MaxExtra tokens
LongStrings == {ManyTokens(n) : n \in 1..(MAX_ARGS - 1 + MaxExtra)}

LongInit == ParseInitWith(LongStrings)

\* lines 45-50 with argCount >= MAX_ARGS: the stores to args[argCount] go
\* past the end of the block of line 34.  Either they land in memory
\* nothing else uses and parse returns as usual (the step Parse), or they
\* damage the allocator's data and the process is aborted (this step).
ParseOverflows ==
    /\ pc = "parse"
    /\ Overflows(parse(cmd).args)
    /\ pc' = "done"
    /\ status' = 134
    /\ UNCHANGED <<running, cmd, read, args, background, ret, pid, cwd, home,
                   queued, children, nextpid, reported, heap>>

LongNext == Parse \/ ParseOverflows

LongSpec == LongInit /\ [][LongNext]_vars

-----------------------------------------------------------------------------
(* Splitting a line into fields, by one pass over its characters *)

Flush(cur, acc) == IF cur = <<>> THEN acc ELSE Append(acc, cur)

RECURSIVE FieldsFrom(_, _, _, _)
FieldsFrom(s, seps, cur, acc) ==
    IF s = <<>> THEN Flush(cur, acc)
    ELSE IF Head(s) \in seps
         THEN FieldsFrom(Tail(s), seps, <<>>, Flush(cur, acc))
         ELSE FieldsFrom(Tail(s), seps, Append(cur, Head(s)), acc)

\* the maximal runs of characters of s that are not in seps, in order
Fields(s, seps) == FieldsFrom(s, seps, <<>>, <<>>)

Space == {" "}
Whitespace == {" ", "\t", "\n"}

HasMarker(toks) == \E i \in 1..Len(toks) : toks[i] = Marker

\* the index of the first marker among toks
FirstMarker(toks) ==
    CHOOSE k \in 1..Len(toks) :
        toks[k] = Marker /\ \A j \in 1..(k - 1) : toks[j] # Marker

\* parse has returned
Parsed == pc = "builtin"

-----------------------------------------------------------------------------
(* C4 *)

\* C4, as stated: for a line none of whose whitespace-separated tokens is
\* the marker "#", parse sets background to false and returns the
\* whitespace-separated tokens of the line, in order.
C4_WhitespaceSplit ==
    (Parsed /\ ~HasMarker(Fields(cmd, Whitespace)))
        => (~background /\ args = Fields(cmd, Whitespace))

\* C4, amended: for a line none of whose space-separated tokens is the
\* marker "#", parse sets background to false and returns the tokens of the
\* line separated by runs of the space character, in order and none empty.
C4_SpaceSplit ==
    (Parsed /\ ~HasMarker(Fields(cmd, Space)))
        => /\ ~background
           /\ args = Fields(cmd, Space)
           /\ \A i \in 1..Len(args) : args[i] # <<>>

\* a line with leading, repeated and trailing spaces has been parsed
C4_Witness ==
    /\ Parsed
    /\ cmd = <<" ", "a", " ", " ", "b">>
    /\ args = <<<<"a">>, <<"b">>>>
    /\ ~background

-----------------------------------------------------------------------------
(* C5 *)

\* C5: when the k-th space-separated token of the line is the first one
\* equal to "#", parse returns the first k-1 tokens in order with
\* background true, whatever follows; a token that only contains "#" is
\* kept as an argument.
C5_MarkerTruncates ==
    (Parsed /\ HasMarker(Fields(cmd, Space)))
        => /\ background
           /\ args = SubSeq(Fields(cmd, Space), 1,
                            FirstMarker(Fields(cmd, Space)) - 1)

\* a token that contains the marker is kept, the marker ends the command
\* and a second marker after it changes nothing
C5_Witness ==
    /\ Parsed
    /\ cmd = <<"#", "a", " ", "#", " ", "#">>
    /\ args = <<<<"#", "a">>>>
    /\ background

-----------------------------------------------------------------------------
(* Predicates shared by the claims about the read loop *)

IsChild(p) == p \in DOMAIN children

Terminated(p) == IsChild(p) /\ children[p].state = "zombie"

\* this step is a successful fork
Spawns == nextpid' # nextpid

\* this step is handle_builtin returning to main
BuiltinReturns == pc = "builtin" /\ pc' # "builtin" /\ status' = status

\* the prompt has been displayed and the next line is about to be read
Prompted == pc = "getline"

-----------------------------------------------------------------------------
(* C1 *)

\* C1: the fork of a foreground command leaves the interpreter waiting for
\* the pid that fork returned; while that child has not terminated the
\* interpreter stays there, reads no line and forks nothing, whatever other
\* children do; so no foreground child is left when a prompt is displayed.
C1_ForegroundBlocks ==
    [][ /\ (pc = "fork" /\ ~background /\ Spawns)
              => (pc' = "wait" /\ pid' = nextpid /\ pid' \in DOMAIN children')
        /\ (pc = "wait" /\ ~Terminated(pid))
              => (pc' = "wait" /\ pid' = pid /\ queued' = queued /\ ~Spawns)
        /\ (pc' = "getline" /\ pc # "getline")
              => \A p \in DOMAIN children' : children'[p].bg
      ]_vars

\* the interpreter waits for a running foreground child while an earlier
\* background child has already terminated
C1_Witness ==
    /\ pc = "wait"
    /\ IsChild(pid)
    /\ children[pid].state = "running"
    /\ \E q \in DOMAIN children : q # pid /\ children[q].bg /\ Terminated(q)

-----------------------------------------------------------------------------
(* C2 *)

\* C2: the fork of a background command prints the child's pid and goes
\* on to the end of the iteration; the interpreter never waits for a
\* background command, passes from there to the prompt only, and the
\* prompt is eventually displayed although the child may run for ever.
C2_BackgroundReturns ==
    /\ [][ /\ (pc = "fork" /\ background /\ Spawns)
                 => (pc' = "free" /\ pid' = nextpid /\ nextpid \in reported')
           /\ (pc = "free" /\ background)
                 => pc' \in {"free", "prompt"}
           /\ (pc = "prompt") => pc' \in {"prompt", "getline"}
         ]_vars
    /\ [](pc = "wait" => ~background)
    /\ ((pc = "free" /\ background /\ IsChild(pid)) ~> Prompted)

\* the prompt is displayed while a reported background child still runs
C2_Witness ==
    /\ Prompted
    /\ \E p \in DOMAIN children :
          /\ children[p].bg
          /\ children[p].state = "running"
          /\ p \in reported

-----------------------------------------------------------------------------
(* C3 *)

\* C3: when the first token of the line is "exit" or "quit", whatever
\* follows it, the dispatch clears running and ends the loop with status
\* 0; from then on nothing is read and nothing is forked, however many
\* lines are still queued.
C3_ExitEndsLoop ==
    /\ [][ (/\ BuiltinReturns
            /\ Fields(cmd, Space) # <<>>
            /\ Fields(cmd, Space)[1] \in {exit, quit})
              => /\ ~running'
                 /\ pc' = "done"
                 /\ status' = 0
                 /\ queued' = queued
                 /\ ~Spawns
         ]_vars
    /\ [][ pc = "done"
              => /\ pc' = "done"
                 /\ queued' = queued
                 /\ ~Spawns
                 /\ DOMAIN children' = DOMAIN children
         ]_vars
    /\ [](~running => pc = "done")

\* the loop has ended on an exit command that carried the background
\* marker, with input still queued
C3_Witness ==
    /\ pc = "done"
    /\ ~running
    /\ status = 0
    /\ background
    /\ queued > 0

-----------------------------------------------------------------------------
(* C6 *)

\* this step dispatches a cd or chdir command
CdStep == BuiltinReturns /\ args # <<>> /\ args[1] \in {cd, chdir}

\* C6, as stated: cd without a second token makes the value of HOME the
\* working directory; cd with a valid directory makes that directory the
\* working directory; cd with an invalid path leaves the working directory
\* unchanged and returns -1.
C6_CdAsStated ==
    [][ CdStep =>
          /\ Len(args) = 1 => (home # NULL /\ cwd' = home[1])
          /\ (Len(args) >= 2 /\ Resolve(cwd, args[2]) \in Dirs)
                => cwd' = Resolve(cwd, args[2])
          /\ (Len(args) >= 2 /\ Resolve(cwd, args[2]) \notin Dirs)
                => (cwd' = cwd /\ ret' = -1)
      ]_vars

\* C6, amended: cd without a second token makes the value of HOME the
\* working directory provided HOME is set and names an accessible
\* directory; the two cases with a second token are as stated.
C6_Cd ==
    [][ CdStep =>
          /\ (Len(args) = 1 /\ home # NULL /\ Resolve(cwd, home[1]) \in Dirs)
                => cwd' = Resolve(cwd, home[1])
          /\ (Len(args) >= 2 /\ Resolve(cwd, args[2]) \in Dirs)
                => cwd' = Resolve(cwd, args[2])
          /\ (Len(args) >= 2 /\ Resolve(cwd, args[2]) \notin Dirs)
                => (cwd' = cwd /\ ret' = -1)
      ]_vars

\* cd to a relative directory has succeeded below the home directory
C6_Witness ==
    /\ pc = "free"
    /\ args = <<cd, dd>>
    /\ ret = 1
    /\ cwd = SubDir

-----------------------------------------------------------------------------
(* C7 *)

\* C7: handle_builtin returns 0 exactly when the first token is none of
\* exit, quit, cd, chdir, and 1 or -1 otherwise; main goes on to execute
\* exactly when it returned 0, and a child is forked only there.
C7_Dispatch ==
    [][ /\ BuiltinReturns
           => /\ ret' \in {-1, 0, 1}
              /\ (ret' = 0) <=> (args = <<>> \/ args[1] \notin Builtins)
              /\ (pc' = "fork") <=> (ret' = 0)
        /\ (pc' = "fork" /\ pc # "fork") => pc = "builtin"
        /\ Spawns => (pc = "fork" /\ ret = 0)
      ]_vars

\* a cd that failed on a line with the background marker is about to be
\* dropped, and nothing was ever forked
C7_Witness ==
    /\ pc = "free"
    /\ ret = -1
    /\ background
    /\ args[1] \in {cd, chdir}
    /\ nextpid = 1

-----------------------------------------------------------------------------
(* C8 *)

\* C8: the command handed to handle_builtin or to execute has at least one
\* token, for every input line.
C8_NonEmptyCommand == pc \in {"builtin", "fork"} => args # <<>>

-----------------------------------------------------------------------------
(* C9 *)

ForkFailStep == pc = "fork" /\ pid' = -1

CdFailStep == BuiltinReturns /\ ret' = -1

ExecFailed(p) == IsChild(p) /\ children[p].state = "failed"

\* C9, amended: a fork failure and a cd failure leave running set and lead
\* straight to the end of the iteration, with no child and no wait; an exec
\* failure leaves running set, and the wait for a foreground child whose
\* exec failed ends when that child has exited; no command is forked
\* twice; in all three cases the next prompt is displayed.
C9_Recoverable ==
    /\ [][ /\ ForkFailStep
              => (running' /\ pc' = "free" /\ children' = children)
           /\ CdFailStep
              => (running' /\ pc' = "free" /\ children' = children)
           /\ (pc' = "fork" /\ pc # "fork") => pc = "builtin"
           /\ (pc = "free") => pc' \in {"free", "prompt"}
         ]_vars
    /\ [](pc # "done" => running)
    /\ ((pc = "free" /\ (pid = -1 \/ ret = -1)) ~> Prompted)
    /\ ((pc = "wait" /\ ExecFailed(pid)) ~> Prompted)

\* C9, as stated: in addition, the interpreter is never in a blocking wait
\* for a command whose exec has failed.
C9_AsStated ==
    /\ C9_Recoverable
    /\ [](\A p \in DOMAIN children : ExecFailed(p) => ~(pc = "wait" /\ pid = p))

\* a cd has failed while an earlier background command, whose exec failed,
\* has exited with status 1, and the interpreter is still running
C9_Witness ==
    /\ pc = "free"
    /\ ret = -1
    /\ running
    /\ \E p \in DOMAIN children : Terminated(p) /\ children[p].code = 1

-----------------------------------------------------------------------------
(* C10 *)

\* C10: the interpreter ends with a non-zero status exactly when getline
\* failed, and it ends with status 0 only by exit or quit.
C10_ExitStatus ==
    pc = "done" => /\ (status # 0) <=> (read = -1)
                   /\ (status = 0) => ~running

-----------------------------------------------------------------------------
(* C11 *)

\* the positions of main between the call of parse and the end of the
\* iteration
Dispatching == pc \in {"parse", "builtin", "fork", "wait", "free"}

\* C11: a line that consists of the line terminator only goes straight
\* back to the prompt: parse, handle_builtin and execute are not reached
\* (no empty text ever is), and running, the working directory, the
\* command and the children stay as they are.
C11_EmptyLineSkipped ==
    /\ [][ (pc = "line" /\ cmd = <<"\n">> /\ pc' # "line")
              => /\ pc' = "prompt"
                 /\ running' = running
                 /\ cwd' = cwd
                 /\ args' = args
                 /\ background' = background
                 /\ ret' = ret
                 /\ children' = children
                 /\ ~Spawns
         ]_vars
    /\ [](Dispatching => cmd # <<>>)

\* an empty line has been skipped (getline had returned 1) and the
\* interpreter is back at the prompt, as it was before the line
C11_Witness ==
    /\ pc = "prompt"
    /\ read = 1
    /\ cmd = NULL
    /\ args = <<>>
    /\ running
    /\ cwd = Root
    /\ children = <<>>

-----------------------------------------------------------------------------
(* C12 *)

\* the tokens written one after the other, with one space between two
RECURSIVE Rejoin(_, _)
Rejoin(toks, acc) ==
    IF toks = <<>> THEN acc
    ELSE Rejoin(Tail(toks),
                IF acc = <<>> THEN Head(toks) ELSE acc \o <<" ">> \o Head(toks))

\* s neither starts nor ends with a space and has no two spaces in a row
SingleSpaced(s) ==
    /\ s # <<>>
    /\ s[1] # " "
    /\ s[Len(s)] # " "
    /\ \A i \in 1..(Len(s) - 1) : ~(s[i] = " " /\ s[i + 1] = " ")

\* C12: for a line without leading, trailing or repeated spaces and
\* without a token equal to "#", the tokens parse returns, joined by single
\* spaces, are the line again (a tab is part of a token and comes back
\* with it).
C12_RoundTrip ==
    (Parsed /\ SingleSpaced(cmd) /\ ~HasMarker(Fields(cmd, Space)))
        => Rejoin(args, <<>>) = cmd

\* a line of three tokens, one of them containing a tab and one containing
\* the marker character, has been parsed
C12_Witness ==
    /\ Parsed
    /\ cmd = <<"\t", " ", "#", "b", " ", "a">>
    /\ Len(args) = 3
    /\ Rejoin(args, <<>>) = cmd

-----------------------------------------------------------------------------
(* C13 *)

\* C13: running changes only from true to false, and only in the dispatch
\* of a command whose first token is exit or quit; the working directory
\* changes only in the dispatch of a cd or chdir that returns 1; a command
\* that is not a builtin goes through handle_builtin and execute with
\* both unchanged.
C13_StateChangesOnlyInBuiltins ==
    [][ /\ (running' # running)
              => /\ running /\ ~running'
                 /\ pc = "builtin"
                 /\ args # <<>>
                 /\ args[1] \in {exit, quit}
        /\ (cwd' # cwd)
              => /\ pc = "builtin"
                 /\ args # <<>>
                 /\ args[1] \in {cd, chdir}
                 /\ ret' = 1
        /\ (BuiltinReturns /\ ret' = 0)
              => (running' = running /\ cwd' = cwd)
        /\ (pc \in {"fork", "wait"})
              => (running' = running /\ cwd' = cwd)
      ]_vars

\* an external foreground command has been run and collected after an
\* earlier cd: the interpreter is still running, in the directory cd chose
C13_Witness ==
    /\ pc = "free"
    /\ ret = 0
    /\ pid > 0
    /\ ~IsChild(pid)
    /\ running
    /\ cwd = HomeDir

-----------------------------------------------------------------------------
(* C14 *)

\* the processes that are executing the loop of main (lines 148-194)
LoopProcesses ==
    (IF pc = "done" THEN {} ELSE {0})
        \cup {p \in DOMAIN children : children[p].state = "loop"}

\* a child that exists before and after the step has moved
ChildMoved(p) ==
    /\ p \in DOMAIN children
    /\ p \in DOMAIN children'
    /\ children'[p] # children[p]

-----------------------------------------------------------------------------
(* C15 *)

\* the iteration that parsed a line is over: the loop is back at its test,
\* or main has left it other than by a crash
IterationOver ==
    /\ pc \in {"builtin", "fork", "wait", "free"}
    /\ pc' \in {"prompt", "done"}
    /\ status' # 139

\* C15, as stated: at the end of every iteration that parsed a line, on
\* every path (builtin success or failure, external command in the
\* foreground or background, exit or quit), every token string, the args
\* array and the line buffer have been released, each exactly once.
C15_AllReleasedOnce ==
    [][ IterationOver => (heap'.live = {} /\ ~heap'.twice) ]_vars

-----------------------------------------------------------------------------
(* C16 *)

\* the background children that have terminated and are not collected
BgTerminated(ch) == {p \in DOMAIN ch : ch[p].bg /\ ch[p].state = "zombie"}

\* C16: a background child is never collected: it stays among the
\* children in every step, and once it has terminated it stays as it is;
\* the terminated background children only grow in number.  waitpid is
\* only ever entered for a foreground child, and the pid execute() got from
\* fork is gone when the next iteration starts.
C16_BackgroundNeverReaped ==
    /\ [][ \A p \in DOMAIN children :
              children[p].bg =>
                 /\ p \in DOMAIN children'
                 /\ children'[p].bg
                 /\ (children[p].state = "zombie"
                        => children'[p] = children[p]) ]_vars
    /\ [][ /\ BgTerminated(children) \subseteq BgTerminated(children')
           /\ Cardinality(BgTerminated(children'))
                 >= Cardinality(BgTerminated(children)) ]_vars
    /\ [](pc = "wait" => (pid \in DOMAIN children /\ ~children[pid].bg))
    /\ [](pc \in {"prompt", "getline", "line", "parse", "builtin", "fork"}
              => pid = 0)

\* a foreground command has been waited for and collected while a
\* background child started before it, and terminated, is still there
C16_Witness ==
    /\ pc = "free"
    /\ pid > 0
    /\ ~background
    /\ pid \notin DOMAIN children
    /\ \E p \in DOMAIN children :
          /\ p < pid
          /\ children[p].bg
          /\ children[p].state = "zombie"

-----------------------------------------------------------------------------
(* C17 *)

\* getline has delivered the rest of the stream, which does not end with
\* a line terminator
UnterminatedLastLine ==
    pc = "line" /\ queued = 0 /\ cmd[Len(cmd)] # "\n"

\* C17, as stated: on a finite input stream, if every foreground child
\* terminates, the interpreter terminates, and it does so either with
\* running cleared by exit or quit or because getline failed; a last line
\* without a line terminator is parsed and dispatched like any other.
C17_Terminates ==
    /\ <>(pc = "done")
    /\ [](pc = "done" => (~running \/ read = -1))
    /\ [][ UnterminatedLastLine => pc' \in {"line", "parse"} ]_vars
    /\ [][ (pc = "parse" /\ pc' # "parse") => pc' = "builtin" ]_vars

\* the interpreter terminates, in whatever way
C17_Halts == <>(pc = "done")

-----------------------------------------------------------------------------
(* C18 *)

\* C18, as stated: whatever the number of tokens of the line, parse writes
\* only inside the MAX_ARGS slots of args: the index argCount of the last
\* token stored and of the terminating NULL is at most MAX_ARGS - 1.
C18_WithinArray == Parsed => Len(args) <= MAX_ARGS - 1

-----------------------------------------------------------------------------
(* C19 *)

\* this step dispatches cd or chdir without a second token while HOME is
\* not set
CdNoHomeStep == CdStep /\ Len(args) = 1 /\ home = NULL

\* handle_builtin is about to be called on a command other than cd or
\* chdir without a second token
HomeNotNeeded ==
    /\ pc = "builtin"
    /\ args # <<>>
    /\ (args[1] \in {cd, chdir} => Len(args) >= 2)

\* C19: cd or chdir without a second token while HOME is unset fails as a
\* recoverable error: the working directory and the children are unchanged,
\* handle_builtin returns -1, nothing is forked, running stays set and the
\* iteration ends, from where the only way on is the next prompt.  In every
\* other dispatch the outcome of handle_builtin is the same whatever the
\* value of HOME.
C19_CdWithoutHome ==
    /\ [][ CdNoHomeStep =>
              /\ cwd' = cwd
              /\ ret' = -1
              /\ running'
              /\ pc' = "free"
              /\ children' = children
              /\ ~Spawns ]_vars
    /\ [][ (pc = "free" /\ ret = -1) =>
              (pc' \in {"free", "prompt"} /\ ~Spawns) ]_vars
    /\ [](HomeNotNeeded =>
             \A h \in HomeValues :
                 handle_builtin(args, running, cwd, h)
                     = handle_builtin(args, running, cwd, home))

\* cd without a second token has failed with HOME unset as the second
\* command of the stream: the interpreter is where it was, still running
C19_Witness ==
    /\ pc = "free"
    /\ args = <<cd>>
    /\ home = NULL
    /\ ret = -1
    /\ cwd = Root
    /\ running
    /\ nextpid = 2
    /\ queued = 0

====
